---- MODULE Spec2Model ----
(***************************************************************************)
(* The fluent HTTP request builder of package reqwest                      *)
(* (src/src/reqwest/reqwest.go, the revision of lines 1-263): one builder  *)
(* at a time, the process-wide interceptor registry, and the transport     *)
(* client as the environment; the earlier builder of lines 265-435; and    *)
(* the logger of package logger (src/unnamed/part_003).                    *)
(***************************************************************************)
EXTENDS Integers, Sequences, FiniteSets, TLC

\* ------------------------------------------------------------- bounds
\* The calls of one run that add to the state: the values Header and Query
\* are given, the interceptors registered, the round trips made and the
\* correlation values added to a shared header map, together.
MaxGrowth == 3

\* ------------------------------------------------------ input domains
Methods == {"GET", "POST", "PUT", "PATCH"}
GoodEndpoint == "http://foo.com"
BadEndpoint == "http://foo.com:xyz"
Endpoints == {GoodEndpoint, BadEndpoint}
\* an execution context: the value it carries under CorrelationIDContextKey
NoCorrelation == "none"
Contexts == {NoCorrelation, "id-1"}
HeaderKeys == {"key1", "key2"}
HeaderValues == {"v1", "v2"}
QueryKeys == {"q1", "q2"}
\* a Query value: a string, a []string, or a value of any other type
QueryInputs ==
    {[type |-> "string", vals |-> <<"a b">>],
     [type |-> "strings", vals |-> <<"x", "a b">>],
     [type |-> "strings", vals |-> <<>>],
     [type |-> "other", vals |-> <<"x">>]}
Payloads == {<<"h", "i">>}
\* values handed to JSON: a string, nil, and a channel (json.Marshal rejects it)
JsonValues ==
    {[kind |-> "string", val |-> <<"a">>],
     [kind |-> "chan", val |-> <<>>]}
InterceptorIds == {"i1", "i2"}
Statuses == {103, 199, 200, 299, 300}
\* a response body that is a JSON document, and what a failing stream yields
ResponseBody == <<"{", "}">>
PartialBody == <<"{">>

\* ------------------------------------------------------------- errors
\* An error value is its root cause and the number of stack wrappers
\* around it; errors.Is looks through the wrappers.
NoErr == [root |-> "nil", depth |-> 0]
ErrUnexpectedResponseStatus == [root |-> "ErrUnexpectedResponseStatus", depth |-> 0]
ErrMarshal == [root |-> "json.UnsupportedTypeError", depth |-> 0]
ErrParseURL == [root |-> "url.Error", depth |-> 0]
ErrTransport == [root |-> "transport", depth |-> 0]
ErrInjected == [root |-> "some error", depth |-> 0]

WithStack(e) == IF e = NoErr THEN NoErr ELSE [e EXCEPT !.depth = @ + 1]

Wrapf(e) == IF e = NoErr THEN NoErr ELSE [e EXCEPT !.depth = @ + 2]

Is(e, target) == e # NoErr /\ e.root = target.root

\* --------------------------------------------------------------- maps
CorrelationIDHeaderKey == "x-correlation-id"
\* http.Header.Add stores under the canonical MIME form of the key
CanonicalCorrelationKey == "X-Correlation-Id"
\* the key under which a JSON body is announced
ContentType == "content-type"
\* the key http.Header.Set stores "accept" under
Accept == "Accept"
AllHeaderKeys == HeaderKeys \cup {CanonicalCorrelationKey, ContentType, Accept}

\* a Go map[string][]string: a key with no values is absent
EmptyHeader == [k \in AllHeaderKeys |-> <<>>]
EmptyValues == [k \in QueryKeys |-> <<>>]

MapLen(m) == Cardinality({k \in DOMAIN m : m[k] # <<>>})

NilReader == [nil |-> TRUE, data |-> <<>>, pos |-> 0]
NewReader(data) == [nil |-> FALSE, data |-> data, pos |-> 0]
Remaining(r) == SubSeq(r.data, r.pos + 1, Len(r.data))

VARIABLES
    builder,                \* the RequestBuilder under configuration
    beforeEachInterceptors, \* the process-wide registry
    request,                \* the request the last call built
    response,               \* the Response the last call returned
    retErr,                 \* the error the last call returned
    lastOp,                 \* the last call: New, Config, Build, Request, Send, Decode
    trace,                  \* what the last call did to interceptors and client
    doCount,                \* transport round trips of this builder
    panicked,               \* a run-time panic ended the goroutine
    headerCalls,            \* history: per key, the values Header was given
    queryCalls,             \* history: per key, the values Query was given
    log,                    \* the logger: its prefix and its handlers
    journal,                \* what the last emission of the logger did
    tracers,                \* the closures Trace has returned
    goroutines              \* the goroutines that run concurrently, if any

\* the variables of package logger
loggerVars == <<log, journal, tracers>>

vars == <<builder, beforeEachInterceptors, request, response, retErr, lastOp,
          trace, doCount, panicked, headerCalls, queryCalls, log, journal,
          tracers, goroutines>>

\* ------------------------------------------------------- constructors
\* logger.New: no prefix, no handlers
New == [prefix |-> "", beforeEach |-> <<>>]

NilRequest ==
    [nil |-> TRUE, method |-> "", url |-> "", rawQuery |-> <<>>,
     header |-> EmptyHeader, aliased |-> FALSE, body |-> <<>>,
     ctx |-> NoCorrelation]

NilResponse == [nil |-> TRUE, StatusCode |-> 0, Body |-> <<>>, closed |-> FALSE]

NilResponseBuilder ==
    [client |-> "nil", request |-> NilRequest, response |-> NilResponse,
     err |-> NoErr]

NewBuilder(method, ctx, endpoint) ==
    [ctx |-> ctx,
     endpoint |-> endpoint,
     client |-> "http.DefaultClient",
     method |-> method,
     query |-> [nil |-> method \in {"PATCH", "PUT"}, vals |-> EmptyValues],
     headers |-> EmptyHeader,
     body |-> NilReader,
     err |-> NoErr]

GET(ctx, endpoint) == NewBuilder("GET", ctx, endpoint)
POST(ctx, endpoint) == NewBuilder("POST", ctx, endpoint)
PATCH(ctx, endpoint) == NewBuilder("PATCH", ctx, endpoint)
\* a PUT that binds the builder to another method
PUTBoundToPost(ctx, endpoint) == NewBuilder("POST", ctx, endpoint)

PUT(ctx, endpoint) == NewBuilder("PUT", ctx, endpoint)

Construct(method, ctx, endpoint) ==
    CASE method = "GET" -> GET(ctx, endpoint)
      [] method = "POST" -> POST(ctx, endpoint)
      [] method = "PATCH" -> PATCH(ctx, endpoint)
      [] method = "PUT" -> PUT(ctx, endpoint)

\* PureRequestBuilder (GET) has no Body and no JSON
Impure(b) == b.method # "GET"

\* ------------------------------------------------------ configuration
\* a Header that sets the value instead of appending it
HeaderSet(b, key, value) == [b EXCEPT !.headers[key] = <<value>>]

Header(b, key, value) == [b EXCEPT !.headers[key] = Append(@, value)]

\* a ValuesAdd that replaces the values of the key, as url.Values.Set does
ValuesSet(q, key, value) ==
    IF q.nil
    THEN [query |-> q, panic |-> TRUE]
    ELSE [query |-> [q EXCEPT !.vals[key] = <<value>>], panic |-> FALSE]

\* url.Values.Add: an assignment to an entry of a nil map panics
ValuesAdd(q, key, value) ==
    IF q.nil
    THEN [query |-> q, panic |-> TRUE]
    ELSE [query |-> [q EXCEPT !.vals[key] = Append(@, value)], panic |-> FALSE]

RECURSIVE AddAll(_, _, _)
AddAll(q, key, values) ==
    IF values = <<>>
    THEN [query |-> q, panic |-> FALSE]
    ELSE LET r == ValuesAdd(q, key, Head(values))
         IN IF r.panic THEN r ELSE AddAll(r.query, key, Tail(values))

Query(b, key, value) ==
    LET r == CASE value.type = "string" -> ValuesAdd(b.query, key, value.vals[1])
               [] value.type = "strings" -> AddAll(b.query, key, value.vals)
               [] OTHER -> [query |-> b.query, panic |-> FALSE]
    IN [builder |-> [b EXCEPT !.query = r.query], panic |-> r.panic]

Body(b, reader) == [b EXCEPT !.body = reader]

\* json.Marshal: a string is quoted, a channel is an unsupported type
Marshal(v) ==
    CASE v.kind = "string" -> [out |-> <<"\"">> \o v.val \o <<"\"">>, err |-> NoErr]
      [] OTHER -> [out |-> <<>>, err |-> ErrMarshal]

\* a JSON without the check of the error the builder holds
JSONOverwritesError(b, body) ==
    LET m == Marshal(body)
    IN IF m.err # NoErr
       THEN [b EXCEPT !.err = WithStack(m.err)]
       ELSE Body(b, NewReader(m.out))

JSON(b, body) ==
    IF b.err # NoErr
    THEN b
    ELSE LET m == Marshal(body)
         IN IF m.err # NoErr
            THEN [b EXCEPT !.err = WithStack(m.err)]
            ELSE Body(b, NewReader(m.out))

BeforeEach(registry, interceptor) == Append(registry, interceptor)

\* ------------------------------------------------------------ building
\* url.QueryEscape on the values of the model: a space becomes "+"
QueryEscape(s) == IF s = "a b" THEN "a+b" ELSE s

\* the keys in the order sort.Strings gives them
SortedQueryKeys == <<"q1", "q2">>

RECURSIVE EncodeFrom(_, _)
EncodeFrom(v, i) ==
    IF i > Len(SortedQueryKeys)
    THEN <<>>
    ELSE LET k == SortedQueryKeys[i]
         IN [j \in 1..Len(v[k]) |-> <<QueryEscape(k), QueryEscape(v[k][j])>>]
            \o EncodeFrom(v, i + 1)

\* url.Values.Encode: the "k=v" pairs, sorted by key; a nil map reads as
\* an empty one
Encode(q) == EncodeFrom(q.vals, 1)

\* http.NewRequest fails on an endpoint url.Parse rejects
NewRequest(method, endpoint, body) ==
    IF endpoint = BadEndpoint
    THEN [req |-> NilRequest, err |-> ErrParseURL]
    ELSE [req |-> [NilRequest EXCEPT !.nil = FALSE, !.method = method,
                                     !.url = endpoint, !.body = Remaining(body)],
          err |-> NoErr]

\* http.Header.Get: the first value stored under the key, "" when none is
HeaderGet(h, key) == IF h[key] = <<>> THEN "" ELSE h[key][1]

\* an Add of the correlation id that stores nothing
HeaderAddNothing(h, value) == h

HeaderAdd(h, value) == [h EXCEPT ![CanonicalCorrelationKey] = Append(@, value)]

\* Build returns the ResponseBuilder and the builder as the code leaves it:
\* req.Header = builder.headers shares the map, so the Add of the
\* correlation id writes to the builder's headers too.
Build(b) ==
    LET out == [NilResponseBuilder EXCEPT !.client = b.client]
        made == NewRequest(b.method, b.endpoint, b.body)
        shared == MapLen(b.headers) > 0
        hasId == b.ctx # NoCorrelation
        req == [made.req EXCEPT
                   !.ctx = b.ctx,
                   !.aliased = shared,
                   !.header = IF ~shared /\ hasId
                              THEN HeaderAdd(EmptyHeader, b.ctx)
                              ELSE EmptyHeader,
                   !.rawQuery = Encode(b.query)]
    IN IF b.err # NoErr
       THEN [builder |-> b, out |-> [out EXCEPT !.err = WithStack(b.err)]]
       ELSE IF made.err # NoErr
       THEN [builder |-> b, out |-> [out EXCEPT !.err = WithStack(made.err)]]
       ELSE [builder |-> IF shared /\ hasId
                         THEN [b EXCEPT !.headers = HeaderAdd(@, b.ctx)]
                         ELSE b,
             out |-> [out EXCEPT !.request = req]]

\* the header map a request reads: the builder's when the map is shared
RequestHeader(req, b) == IF req.aliased THEN b.headers ELSE req.header

\* a request as a reader of it sees it
View(req, b) ==
    [req EXCEPT !.header = RequestHeader(req, b), !.aliased = FALSE]

Request(b) ==
    LET built == Build(b)
    IN [builder |-> built.builder,
        request |-> built.out.request,
        err |-> WithStack(built.out.err)]

\* -------------------------------------------------------------- sending
\* what the transport does with one request: fail, or answer with a status
\* and a body stream that yields `body` and then ends, or fails (readErr)
Outcomes ==
    [kind : {"error"}, status : {0}, body : {<<>>}, readErr : {FALSE}]
    \cup [kind : {"response"}, status : Statuses, body : {ResponseBody},
          readErr : {FALSE}]
    \cup [kind : {"response"}, status : {200, 300}, body : {PartialBody},
          readErr : {TRUE}]

\* the interceptors called last registered first
CalledInReverse(interceptors, req) ==
    [i \in 1..Len(interceptors) |->
        [kind |-> "interceptor",
         id |-> interceptors[Len(interceptors) + 1 - i],
         request |-> req]]

Called(interceptors, req) ==
    [i \in 1..Len(interceptors) |->
        [kind |-> "interceptor", id |-> interceptors[i], request |-> req]]

\* the range check with its upper end one too low
UnexpectedStatusOffByOne(StatusCode) == StatusCode < 200 \/ StatusCode >= 299

UnexpectedStatus(StatusCode) == StatusCode < 200 \/ StatusCode > 299

\* a response whose stream is left open when reading it failed
ConsumedLeftOpen(o) ==
    [nil |-> FALSE, StatusCode |-> o.status, Body |-> o.body,
     closed |-> ~o.readErr]

\* the Response of a transport call that succeeded: ReadAll takes every byte
\* the stream yields, until its end or its failure, and Close follows
\* whatever ReadAll returned
Consumed(o) ==
    [nil |-> FALSE, StatusCode |-> o.status, Body |-> o.body, closed |-> TRUE]

\* a makeRequest without the check of the handle's error
makeRequestUnguarded(rb, b, interceptors, o) ==
    LET seen == View(rb.request, b)
        tr == Append(Called(interceptors, seen),
                     [kind |-> "Do", id |-> "client", request |-> seen,
                      outcome |-> o])
    IN IF o.kind = "error"
       THEN [rb |-> [rb EXCEPT !.response = NilResponse,
                               !.err = WithStack(ErrTransport)],
             trace |-> tr]
       ELSE [rb |-> [rb EXCEPT
                       !.response = [nil |-> FALSE,
                                     StatusCode |-> o.status,
                                     Body |-> o.body,
                                     closed |-> TRUE],
                       !.err = IF UnexpectedStatus(o.status)
                               THEN Wrapf(ErrUnexpectedResponseStatus)
                               ELSE @],
             trace |-> tr]

makeRequest(rb, b, interceptors, o) ==
    IF rb.err # NoErr
    THEN [rb |-> rb, trace |-> <<>>]
    ELSE LET seen == View(rb.request, b)
             tr == Append(Called(interceptors, seen),
                          [kind |-> "Do", id |-> "client", request |-> seen,
                           outcome |-> o])
         IN IF o.kind = "error"
            THEN [rb |-> [rb EXCEPT !.response = NilResponse,
                                    !.err = WithStack(ErrTransport)],
                  trace |-> tr]
            ELSE [rb |-> [rb EXCEPT
                            !.response = Consumed(o),
                            !.err = IF UnexpectedStatus(o.status)
                                    THEN Wrapf(ErrUnexpectedResponseStatus)
                                    ELSE @],
                  trace |-> tr]

\* the transport reads the request body from the builder's reader
Drain(r) == IF r.nil THEN r ELSE [r EXCEPT !.pos = Len(r.data)]

\* a Send that returns no response with an error
SendWithholdsResponse(b, interceptors, o) ==
    LET built == Build(b)
        made == makeRequest(built.out, built.builder, interceptors, o)
        did == made.trace # <<>>
    IN [builder |-> IF did /\ o.kind = "response"
                    THEN [built.builder EXCEPT !.body = Drain(@)]
                    ELSE built.builder,
        request |-> made.rb.request,
        response |-> IF made.rb.err # NoErr THEN NilResponse ELSE made.rb.response,
        err |-> WithStack(made.rb.err),
        trace |-> made.trace]

Send(b, interceptors, o) ==
    LET built == Build(b)
        made == makeRequest(built.out, built.builder, interceptors, o)
        did == made.trace # <<>>
    IN [builder |-> IF did /\ o.kind = "response"
                    THEN [built.builder EXCEPT !.body = Drain(@)]
                    ELSE built.builder,
        request |-> made.rb.request,
        response |-> made.rb.response,
        err |-> WithStack(made.rb.err),
        trace |-> made.trace]

\* -------------------------------------------------------------- actions
Init ==
    /\ \E m \in Methods, c \in Contexts, e \in Endpoints :
          builder = Construct(m, c, e)
    /\ beforeEachInterceptors = <<>>
    /\ request = NilRequest
    /\ response = NilResponse
    /\ retErr = NoErr
    /\ lastOp = "New"
    /\ trace = <<>>
    /\ doCount = 0
    /\ panicked = FALSE
    /\ headerCalls = [k \in HeaderKeys |-> <<>>]
    /\ queryCalls = [k \in QueryKeys |-> <<>>]
    /\ log = New
    /\ journal = <<>>
    /\ tracers = {}
    /\ goroutines = <<>>

\* what a call that is not Build, Request or Send leaves as the last results
NoResult ==
    /\ request' = NilRequest
    /\ response' = NilResponse
    /\ retErr' = NoErr
    /\ trace' = <<>>

\* The tests of the package put a builder in error state by assigning its
\* private field on a builder just constructed.
InjectErr ==
    /\ ~panicked
    /\ builder = Construct(builder.method, builder.ctx, builder.endpoint)
    /\ builder' = [builder EXCEPT !.err = ErrInjected]
    /\ NoResult
    /\ lastOp' = "Config"
    /\ UNCHANGED <<beforeEachInterceptors, doCount, panicked,
                   headerCalls, queryCalls>>
    /\ UNCHANGED loggerVars
    /\ UNCHANGED goroutines

RECURSIVE Total(_, _)
Total(f, keys) ==
    IF keys = {}
    THEN 0
    ELSE LET k == CHOOSE x \in keys : TRUE
         IN Len(f[k]) + Total(f, keys \ {k})

\* what the run has added so far
Grown ==
    Total(headerCalls, HeaderKeys) + Total(queryCalls, QueryKeys)
    + Len(beforeEachInterceptors) + doCount
    + Len(builder.headers[CanonicalCorrelationKey])

HeaderCall ==
    /\ ~panicked
    /\ Grown < MaxGrowth
    /\ \E k \in HeaderKeys, v \in HeaderValues :
          /\ builder' = Header(builder, k, v)
          /\ headerCalls' = [headerCalls EXCEPT ![k] = Append(@, v)]
    /\ NoResult
    /\ lastOp' = "Config"
    /\ UNCHANGED <<beforeEachInterceptors, doCount, panicked,
                   queryCalls>>
    /\ UNCHANGED loggerVars
    /\ UNCHANGED goroutines

\* the values a Query call supplies: none when the value is of another type
Supplied(value) == IF value.type = "other" THEN <<>> ELSE value.vals

QueryCall ==
    /\ ~panicked
    /\ \E k \in QueryKeys, v \in QueryInputs :
          /\ Grown + Len(Supplied(v)) <= MaxGrowth
          /\ LET r == Query(builder, k, v)
             IN /\ builder' = r.builder
                /\ panicked' = r.panic
          /\ queryCalls' = [queryCalls EXCEPT ![k] = @ \o Supplied(v)]
    /\ NoResult
    /\ lastOp' = "Config"
    /\ UNCHANGED <<beforeEachInterceptors, doCount, headerCalls>>
    /\ UNCHANGED loggerVars
    /\ UNCHANGED goroutines

BodyCall ==
    /\ ~panicked
    /\ Impure(builder)
    /\ \E data \in Payloads : builder' = Body(builder, NewReader(data))
    /\ NoResult
    /\ lastOp' = "Config"
    /\ UNCHANGED <<beforeEachInterceptors, doCount, panicked,
                   headerCalls, queryCalls>>
    /\ UNCHANGED loggerVars
    /\ UNCHANGED goroutines

JSONCall ==
    /\ ~panicked
    /\ Impure(builder)
    /\ \E v \in JsonValues : builder' = JSON(builder, v)
    /\ NoResult
    /\ lastOp' = "Config"
    /\ UNCHANGED <<beforeEachInterceptors, doCount, panicked,
                   headerCalls, queryCalls>>
    /\ UNCHANGED loggerVars
    /\ UNCHANGED goroutines

BeforeEachCall ==
    /\ ~panicked
    /\ Grown < MaxGrowth
    /\ \E i \in InterceptorIds :
          beforeEachInterceptors' = BeforeEach(beforeEachInterceptors, i)
    /\ NoResult
    /\ lastOp' = "Config"
    /\ UNCHANGED <<builder, doCount, panicked, headerCalls,
                   queryCalls>>
    /\ UNCHANGED loggerVars
    /\ UNCHANGED goroutines

\* the correlation values a Build of b adds to the builder's own map
Adds(b) ==
    IF b.err = NoErr /\ b.endpoint # BadEndpoint /\ MapLen(b.headers) > 0
          /\ b.ctx # NoCorrelation
    THEN 1
    ELSE 0

\* the round trips a Send of b makes
Rounds(b) == IF b.err = NoErr /\ b.endpoint # BadEndpoint THEN 1 ELSE 0

BuildCall ==
    /\ ~panicked
    /\ Grown + Adds(builder) <= MaxGrowth
    /\ LET built == Build(builder)
       IN /\ builder' = built.builder
          /\ request' = built.out.request
          /\ response' = built.out.response
          /\ retErr' = built.out.err
    /\ trace' = <<>>
    /\ lastOp' = "Build"
    /\ UNCHANGED <<beforeEachInterceptors, doCount, panicked, headerCalls,
                   queryCalls>>
    /\ UNCHANGED loggerVars
    /\ UNCHANGED goroutines

RequestCall ==
    /\ ~panicked
    /\ Grown + Adds(builder) <= MaxGrowth
    /\ LET r == Request(builder)
       IN /\ builder' = r.builder
          /\ request' = r.request
          /\ retErr' = r.err
    /\ response' = NilResponse
    /\ trace' = <<>>
    /\ lastOp' = "Request"
    /\ UNCHANGED <<beforeEachInterceptors, doCount, panicked, headerCalls,
                   queryCalls>>
    /\ UNCHANGED loggerVars
    /\ UNCHANGED goroutines

DoCalls(tr) == Cardinality({i \in DOMAIN tr : tr[i].kind = "Do"})

SendCall ==
    /\ ~panicked
    /\ Grown + Adds(builder) + Rounds(builder) <= MaxGrowth
    /\ \E o \in Outcomes :
          LET r == Send(builder, beforeEachInterceptors, o)
          IN /\ builder' = r.builder
             /\ request' = r.request
             /\ response' = r.response
             /\ retErr' = r.err
             /\ trace' = r.trace
             /\ doCount' = doCount + DoCalls(r.trace)
    /\ lastOp' = "Send"
    /\ UNCHANGED <<beforeEachInterceptors, panicked, headerCalls, queryCalls>>
    /\ UNCHANGED loggerVars
    /\ UNCHANGED goroutines

ErrRead == [root |-> "read", depth |-> 0]
ErrUnmarshal == [root |-> "json.SyntaxError", depth |-> 0]

\* json.Unmarshal accepts the body that is a JSON document
Unmarshal(body) == IF body = ResponseBody THEN NoErr ELSE ErrUnmarshal

\* Response.JSON decodes the bytes of a Response that Send returned
ResponseJSON(resp) == Unmarshal(resp.Body)

ResponseJSONCall ==
    /\ ~panicked
    /\ lastOp = "Send"
    /\ retErr' = ResponseJSON(response)
    /\ trace' = <<>>
    /\ lastOp' = "Decode"
    /\ UNCHANGED <<builder, beforeEachInterceptors, request, response, doCount,
                   panicked, headerCalls, queryCalls>>
    /\ UNCHANGED loggerVars
    /\ UNCHANGED goroutines

Next ==
    \/ InjectErr
    \/ HeaderCall
    \/ QueryCall
    \/ BodyCall
    \/ JSONCall
    \/ BeforeEachCall
    \/ BuildCall
    \/ RequestCall
    \/ SendCall
    \/ ResponseJSONCall

Spec == Init /\ [][Next]_vars

\* ------------------------------------------------ the earlier builder
\* The builder of src/src/reqwest/reqwest.go lines 265-435: POST makes the
\* request when it constructs the builder, the builder itself holds request,
\* response and error, and ResponseBuilder.JSON is the operation that sends.
EarlyHeaderKeys == HeaderKeys \cup {ContentType, Accept}
EarlyEmptyHeader == [k \in EarlyHeaderKeys |-> <<>>]
EarlyNilRequest ==
    [nil |-> TRUE, method |-> "", url |-> "", header |-> EarlyEmptyHeader,
     aliased |-> FALSE, body |-> <<>>, ctx |-> NoCorrelation]

EarlyNewRequest(method, endpoint) ==
    IF endpoint = BadEndpoint
    THEN [req |-> EarlyNilRequest, err |-> ErrParseURL]
    ELSE [req |-> [EarlyNilRequest EXCEPT !.nil = FALSE, !.method = method,
                                          !.url = endpoint],
          err |-> NoErr]

\* req.WithContext on the nil request of a failed NewRequest panics
EarlyPOST(ctx, endpoint) ==
    LET made == EarlyNewRequest("POST", endpoint)
    IN [builder |-> [ctx |-> ctx,
                     endpoint |-> "",
                     request |-> [made.req EXCEPT !.ctx = ctx],
                     response |-> NilResponse,
                     client |-> "http.DefaultClient",
                     method |-> "POST",
                     query |-> [nil |-> TRUE, vals |-> EmptyValues],
                     headers |-> [nil |-> TRUE, m |-> EarlyEmptyHeader],
                     err |-> made.err],
        panic |-> made.req.nil]

EarlyGET(ctx, endpoint) ==
    [builder |-> [ctx |-> ctx,
                  endpoint |-> endpoint,
                  request |-> EarlyNilRequest,
                  response |-> NilResponse,
                  client |-> "http.DefaultClient",
                  method |-> "GET",
                  query |-> [nil |-> FALSE, vals |-> EmptyValues],
                  headers |-> [nil |-> TRUE, m |-> EarlyEmptyHeader],
                  err |-> NoErr],
     panic |-> FALSE]

\* client.Do on a nil request panics
EarlyMakeRequest(b, o) ==
    IF b.err # NoErr
    THEN [builder |-> b, trace |-> <<>>, panic |-> FALSE]
    ELSE IF b.request.nil
    THEN [builder |-> b, trace |-> <<>>, panic |-> TRUE]
    ELSE [builder |->
             [b EXCEPT !.err = IF o.kind = "error" THEN ErrTransport ELSE NoErr,
                       !.response = IF o.kind = "error"
                                    THEN NilResponse
                                    ELSE [nil |-> FALSE, StatusCode |-> o.status,
                                          Body |-> <<>>, closed |-> FALSE]],
          trace |-> <<[kind |-> "Do", id |-> "client", request |-> b.request,
                       outcome |-> o]>>,
          panic |-> FALSE]

EarlyHeader(b, key, value) ==
    [b EXCEPT !.headers = [nil |-> FALSE, m |-> [@.m EXCEPT ![key] = Append(@, value)]]]

EarlyJSON(b, body, o) ==
    IF b.err # NoErr
    THEN [builder |-> b, trace |-> <<>>, panic |-> FALSE]
    ELSE LET sent == EarlyMakeRequest(EarlyHeader(b, ContentType, "application/json"), o)
             m == Marshal(body)
         IN IF sent.panic \/ sent.builder.err # NoErr
            THEN sent
            ELSE IF m.err # NoErr
            THEN [sent EXCEPT !.builder.err = m.err]
            ELSE [sent EXCEPT !.builder.request.body = m.out]

\* Build wraps the error in place, on the builder the ResponseBuilder refers to
EarlyBuild(b) ==
    LET made == EarlyNewRequest(b.method, b.endpoint)
    IN IF b.err # NoErr
       THEN [builder |-> [b EXCEPT !.err = WithStack(@)], request |-> EarlyNilRequest]
       ELSE IF made.err # NoErr
       THEN [builder |-> [b EXCEPT !.err = WithStack(made.err)],
             request |-> EarlyNilRequest]
       ELSE [builder |-> b,
             request |-> [made.req EXCEPT !.ctx = b.ctx, !.aliased = TRUE]]

\* ResponseBuilder.JSON works on the request of the builder, which is nil
\* for a builder GET made
EarlyResponseJSON(b, o) ==
    IF b.request.nil
    THEN [builder |-> b, trace |-> <<>>, panic |-> TRUE, err |-> NoErr]
    ELSE LET accepting == [b EXCEPT !.request.header[Accept] = <<"application/json">>]
             sent == EarlyMakeRequest(accepting, o)
             closed == [sent.builder EXCEPT !.response.closed = TRUE,
                                            !.response.Body = o.body]
         IN IF sent.builder.err # NoErr
            THEN [builder |-> sent.builder, trace |-> sent.trace, panic |-> FALSE,
                  err |-> sent.builder.err]
            ELSE [builder |-> closed, trace |-> sent.trace, panic |-> FALSE,
                  err |-> IF o.readErr THEN ErrRead ELSE Unmarshal(o.body)]

\* what the earlier builder's run has added so far
EarlyGrown ==
    Total(builder.headers.m, EarlyHeaderKeys \ {Accept}) + doCount + builder.err.depth

InitEarlier ==
    /\ \E c \in Contexts, e \in Endpoints :
          \E made \in {EarlyPOST(c, e), EarlyGET(c, e)} :
              /\ builder = made.builder
              /\ panicked = made.panic
    /\ beforeEachInterceptors = <<>>
    /\ request = EarlyNilRequest
    /\ response = NilResponse
    /\ retErr = NoErr
    /\ lastOp = "New"
    /\ trace = <<>>
    /\ doCount = 0
    /\ headerCalls = [k \in HeaderKeys |-> <<>>]
    /\ queryCalls = [k \in QueryKeys |-> <<>>]
    /\ log = New
    /\ journal = <<>>
    /\ tracers = {}
    /\ goroutines = <<>>

EarlyHeaderCall ==
    /\ ~panicked
    /\ EarlyGrown < MaxGrowth
    /\ \E k \in HeaderKeys, v \in HeaderValues :
          /\ builder' = EarlyHeader(builder, k, v)
          /\ headerCalls' = [headerCalls EXCEPT ![k] = Append(@, v)]
    /\ retErr' = NoErr
    /\ trace' = <<>>
    /\ lastOp' = "Config"
    /\ UNCHANGED <<beforeEachInterceptors, request, response, doCount, panicked,
                   queryCalls>>
    /\ UNCHANGED loggerVars
    /\ UNCHANGED goroutines

EarlyJSONCall ==
    /\ ~panicked
    /\ Impure(builder)
    /\ EarlyGrown + 2 <= MaxGrowth
    /\ \E v \in JsonValues, o \in Outcomes :
          LET r == EarlyJSON(builder, v, o)
          IN /\ builder' = r.builder
             /\ trace' = r.trace
             /\ doCount' = doCount + DoCalls(r.trace)
             /\ panicked' = r.panic
    /\ retErr' = NoErr
    /\ lastOp' = "Config"
    /\ UNCHANGED <<beforeEachInterceptors, request, response, headerCalls,
                   queryCalls>>
    /\ UNCHANGED loggerVars
    /\ UNCHANGED goroutines

EarlyBuildCall ==
    /\ ~panicked
    /\ EarlyGrown < MaxGrowth
    /\ LET r == EarlyBuild(builder)
       IN /\ builder' = r.builder
          /\ request' = r.request
          /\ retErr' = r.builder.err
    /\ trace' = <<>>
    /\ lastOp' = "Build"
    /\ UNCHANGED <<beforeEachInterceptors, response, doCount, panicked,
                   headerCalls, queryCalls>>
    /\ UNCHANGED loggerVars
    /\ UNCHANGED goroutines

\* a ResponseBuilder is at hand once Build returned one
EarlyResponseJSONCall ==
    /\ ~panicked
    /\ lastOp \in {"Build", "ResponseJSON"}
    /\ EarlyGrown < MaxGrowth
    /\ \E o \in Outcomes :
          LET r == EarlyResponseJSON(builder, o)
          IN /\ builder' = r.builder
             /\ trace' = r.trace
             /\ doCount' = doCount + DoCalls(r.trace)
             /\ panicked' = r.panic
             /\ retErr' = r.err
    /\ lastOp' = "ResponseJSON"
    /\ UNCHANGED <<beforeEachInterceptors, request, response, headerCalls,
                   queryCalls>>
    /\ UNCHANGED loggerVars
    /\ UNCHANGED goroutines

NextEarlier ==
    \/ EarlyHeaderCall
    \/ EarlyJSONCall
    \/ EarlyBuildCall
    \/ EarlyResponseJSONCall

SpecEarlier == InitEarlier /\ [][NextEarlier]_vars

\* --------------------------------------------- a caller keeps a request
\* The same builder, with the caller holding on to the first request that
\* Request returned while it goes on calling the builder: `request` is that
\* request, which later calls neither replace nor drop.
HeldHeaderCall ==
    /\ ~panicked
    /\ Grown < MaxGrowth
    /\ \E k \in HeaderKeys, v \in HeaderValues :
          /\ builder' = Header(builder, k, v)
          /\ headerCalls' = [headerCalls EXCEPT ![k] = Append(@, v)]
    /\ lastOp' = "Config"
    /\ UNCHANGED <<beforeEachInterceptors, request, response, retErr, trace,
                   doCount, panicked, queryCalls>>
    /\ UNCHANGED loggerVars
    /\ UNCHANGED goroutines

HeldQueryCall ==
    /\ ~panicked
    /\ \E k \in QueryKeys, v \in QueryInputs :
          /\ Grown + Len(Supplied(v)) <= MaxGrowth
          /\ LET r == Query(builder, k, v)
             IN /\ builder' = r.builder
                /\ panicked' = r.panic
          /\ queryCalls' = [queryCalls EXCEPT ![k] = @ \o Supplied(v)]
    /\ lastOp' = "Config"
    /\ UNCHANGED <<beforeEachInterceptors, request, response, retErr, trace,
                   doCount, headerCalls>>
    /\ UNCHANGED loggerVars
    /\ UNCHANGED goroutines

HeldBodyCall ==
    /\ ~panicked
    /\ Impure(builder)
    /\ \E data \in Payloads : builder' = Body(builder, NewReader(data))
    /\ lastOp' = "Config"
    /\ UNCHANGED <<beforeEachInterceptors, request, response, retErr, trace,
                   doCount, panicked, headerCalls, queryCalls>>
    /\ UNCHANGED loggerVars
    /\ UNCHANGED goroutines

HeldRequestCall ==
    /\ ~panicked
    /\ Grown + Adds(builder) <= MaxGrowth
    /\ LET r == Request(builder)
       IN /\ builder' = r.builder
          /\ request' = IF request.nil THEN r.request ELSE request
          /\ retErr' = r.err
    /\ lastOp' = "Request"
    /\ UNCHANGED <<beforeEachInterceptors, response, trace, doCount, panicked,
                   headerCalls, queryCalls>>
    /\ UNCHANGED loggerVars
    /\ UNCHANGED goroutines

NextHeld ==
    \/ HeldHeaderCall
    \/ HeldQueryCall
    \/ HeldBodyCall
    \/ HeldRequestCall

SpecHeld == Init /\ [][NextHeld]_vars

\* ------------------------------------------------------ package logger
\* The logger of src/unnamed/part_003: one logger value, the handlers
\* registered on it, and the closures its Trace has handed out. A handler
\* observes the event and the message; zerolog is the sink.
Events ==
    [TraceStart |-> "trace_start", TraceEnd |-> "trace_end", Info |-> "info",
     Error |-> "error", Debug |-> "debug"]
Messages == {"m1", "m2"}
Prefixes == {"id-1", "id-2"}
HandlerIds == {"h1", "h2"}

LoggerBeforeEach(l, handler) == [l EXCEPT !.beforeEach = Append(@, handler)]

\* the handlers called last registered first
callBeforeEachHandlersReversed(l, event, message) ==
    [i \in 1..Len(l.beforeEach) |->
        [kind |-> "handler", id |-> l.beforeEach[Len(l.beforeEach) + 1 - i],
         event |-> event, message |-> message]]

callBeforeEachHandlers(l, event, message) ==
    [i \in 1..Len(l.beforeEach) |->
        [kind |-> "handler", id |-> l.beforeEach[i], event |-> event,
         message |-> message]]

\* one line handed to zerolog: its level, the correlation_id field, and the
\* text, which for Trace is the message behind a marker
Emit(level, l, marker, message) ==
    [kind |-> "emit", level |-> level, correlation_id |-> l.prefix,
     marker |-> marker, message |-> message]

\* Trace returns the closure, which keeps the message
Trace(l, message) ==
    [journal |-> Append(callBeforeEachHandlers(l, Events.TraceStart, message),
                        Emit("info", l, "END", message)),
     tracer |-> [message |-> message]]

\* the closure Trace returned, called on the logger as it is by then
Tracer(l, t) ==
    Append(callBeforeEachHandlers(l, Events.TraceEnd, t.message),
           Emit("info", l, "END", t.message))

Info(l, message) ==
    Append(callBeforeEachHandlers(l, Events.Info, message),
           Emit("info", l, "", message))

Error(l, message) ==
    Append(callBeforeEachHandlers(l, Events.Error, message),
           Emit("error", l, "", message))

Debug(l, message) ==
    Append(callBeforeEachHandlers(l, Events.Debug, message),
           Emit("debug", l, "", message))

Prefix(l, prefix) == [l EXCEPT !.prefix = prefix]

\* the variables of package reqwest, but for the last call
reqwestVars ==
    <<builder, beforeEachInterceptors, request, response, retErr, trace,
      doCount, panicked, headerCalls, queryCalls>>

InitLogger ==
    /\ log = New
    /\ journal = <<>>
    /\ tracers = {}
    /\ goroutines = <<>>
    /\ lastOp = "New"
    /\ builder = GET(NoCorrelation, GoodEndpoint)
    /\ beforeEachInterceptors = <<>>
    /\ request = NilRequest
    /\ response = NilResponse
    /\ retErr = NoErr
    /\ trace = <<>>
    /\ doCount = 0
    /\ panicked = FALSE
    /\ headerCalls = [k \in HeaderKeys |-> <<>>]
    /\ queryCalls = [k \in QueryKeys |-> <<>>]

LoggerBeforeEachCall ==
    /\ Len(log.beforeEach) < MaxGrowth
    /\ \E h \in HandlerIds : log' = LoggerBeforeEach(log, h)
    /\ lastOp' = "BeforeEach"
    /\ UNCHANGED <<journal, tracers>>
    /\ UNCHANGED reqwestVars
    /\ UNCHANGED goroutines

PrefixCall ==
    /\ \E p \in Prefixes : log' = Prefix(log, p)
    /\ lastOp' = "Prefix"
    /\ UNCHANGED <<journal, tracers>>
    /\ UNCHANGED reqwestVars
    /\ UNCHANGED goroutines

TraceCall ==
    /\ \E m \in Messages :
          /\ journal' = Trace(log, m).journal
          /\ tracers' = tracers \cup {Trace(log, m).tracer}
    /\ lastOp' = "Trace"
    /\ UNCHANGED log
    /\ UNCHANGED reqwestVars
    /\ UNCHANGED goroutines

TracerCall ==
    /\ \E t \in tracers : journal' = Tracer(log, t)
    /\ lastOp' = "TraceEnd"
    /\ UNCHANGED <<log, tracers>>
    /\ UNCHANGED reqwestVars
    /\ UNCHANGED goroutines

InfoCall ==
    /\ \E m \in Messages : journal' = Info(log, m)
    /\ lastOp' = "Info"
    /\ UNCHANGED <<log, tracers>>
    /\ UNCHANGED reqwestVars
    /\ UNCHANGED goroutines

ErrorCall ==
    /\ \E m \in Messages : journal' = Error(log, m)
    /\ lastOp' = "Error"
    /\ UNCHANGED <<log, tracers>>
    /\ UNCHANGED reqwestVars
    /\ UNCHANGED goroutines

DebugCall ==
    /\ \E m \in Messages : journal' = Debug(log, m)
    /\ lastOp' = "Debug"
    /\ UNCHANGED <<log, tracers>>
    /\ UNCHANGED reqwestVars
    /\ UNCHANGED goroutines

NextLogger ==
    \/ LoggerBeforeEachCall
    \/ PrefixCall
    \/ TraceCall
    \/ TracerCall
    \/ InfoCall
    \/ ErrorCall
    \/ DebugCall

SpecLogger == InitLogger /\ [][NextLogger]_vars

\* ------------------------------------------- goroutines on the registry
\* BeforeEach and Send called from goroutines that run concurrently.
\* beforeEachInterceptors is a package variable that no lock guards: a
\* BeforeEach reads the slice to build the appended one and then assigns it,
\* a Send reads the slice once, when its range loop starts, and other
\* goroutines run between these steps. Each goroutine makes one call; a Send
\* is on a builder of its own.
Goroutines == {"g1", "g2", "g3"}

Programs ==
    [op : {"BeforeEach"}, interceptor : InterceptorIds]
    \cup [op : {"Send"}, interceptor : {"none"}]

\* a goroutine: its call, where it stands in it, the slice it has read and
\* what its Send did
Started(program) ==
    [op |-> program.op, interceptor |-> program.interceptor, pc |-> "start",
     read |-> <<>>, did |-> <<>>]

\* the answer of the transport to the Sends of these goroutines
Answered == CHOOSE o \in Outcomes : o.kind = "response" /\ o.status = 200 /\ ~o.readErr

InitRace ==
    /\ goroutines \in [Goroutines -> {Started(p) : p \in Programs}]
    /\ beforeEachInterceptors = <<>>
    /\ builder = GET(NoCorrelation, GoodEndpoint)
    /\ request = NilRequest
    /\ response = NilResponse
    /\ retErr = NoErr
    /\ lastOp = "New"
    /\ trace = <<>>
    /\ doCount = 0
    /\ panicked = FALSE
    /\ headerCalls = [k \in HeaderKeys |-> <<>>]
    /\ queryCalls = [k \in QueryKeys |-> <<>>]
    /\ log = New
    /\ journal = <<>>
    /\ tracers = {}

\* what the steps of a goroutine on the registry leave alone
RaceFrame ==
    UNCHANGED <<builder, request, response, retErr, trace, panicked,
                headerCalls, queryCalls, log, journal, tracers>>

\* BeforeEach evaluates append(beforeEachInterceptors, interceptor)
RaceAppend ==
    /\ \E g \in Goroutines :
          /\ goroutines[g].op = "BeforeEach"
          /\ goroutines[g].pc = "start"
          /\ goroutines' = [goroutines EXCEPT ![g].pc = "assign",
                                              ![g].read = beforeEachInterceptors]
    /\ lastOp' = "Config"
    /\ UNCHANGED <<beforeEachInterceptors, doCount>>
    /\ RaceFrame

\* BeforeEach assigns the slice it built to the package variable
RaceAssign ==
    /\ \E g \in Goroutines :
          /\ goroutines[g].pc = "assign"
          /\ beforeEachInterceptors' =
                BeforeEach(goroutines[g].read, goroutines[g].interceptor)
          /\ goroutines' = [goroutines EXCEPT ![g].pc = "done"]
    /\ lastOp' = "Config"
    /\ UNCHANGED doCount
    /\ RaceFrame

\* the range loop of makeRequest reads the package variable
RaceRange ==
    /\ \E g \in Goroutines :
          /\ goroutines[g].op = "Send"
          /\ goroutines[g].pc = "start"
          /\ goroutines' = [goroutines EXCEPT ![g].pc = "range",
                                              ![g].read = beforeEachInterceptors]
    /\ lastOp' = "Send"
    /\ UNCHANGED <<beforeEachInterceptors, doCount>>
    /\ RaceFrame

\* the Send calls the interceptors of the slice it read, and the client
RaceDo ==
    /\ \E g \in Goroutines :
          /\ goroutines[g].pc = "range"
          /\ LET r == Send(builder, goroutines[g].read, Answered)
             IN /\ goroutines' = [goroutines EXCEPT ![g].pc = "done",
                                                    ![g].did = r.trace]
                /\ doCount' = doCount + DoCalls(r.trace)
    /\ lastOp' = "Send"
    /\ UNCHANGED beforeEachInterceptors
    /\ RaceFrame

NextRace ==
    \/ RaceAppend
    \/ RaceAssign
    \/ RaceRange
    \/ RaceDo

SpecRace == InitRace /\ [][NextRace]_vars

\* ---------------------------------------------------------------- claims
Terminal == {"Build", "Request", "Send"}

\* the transport's answer to the last Send that reached the client
Answer == trace[Len(trace)].outcome

\* C1: once the builder holds an error, a configuration call (Header,
\* Query, Body, JSON) leaves the builder as it was: the same error, the
\* same headers, query parameters and body.
C1_ConfigIsNoOpAfterError ==
    [][(builder.err # NoErr /\ lastOp' = "Config") => builder' = builder]_vars

\* C2: the first error recorded on the builder is never replaced, and every
\* terminal operation called afterwards returns an error that wraps it.
C2_FirstErrorWins ==
    [][builder.err # NoErr =>
          /\ builder'.err = builder.err
          /\ lastOp' \in Terminal =>
                /\ Is(retErr', builder.err)
                /\ retErr'.depth > builder.err.depth]_vars

C2_Witness ==
    /\ lastOp = "Send"
    /\ Is(builder.err, ErrMarshal)
    /\ builder.endpoint = BadEndpoint
    /\ Is(retErr, ErrMarshal)

\* the operations that are asked to send
SendTriggering == {"Send", "ResponseJSON"}

\* C3: no call other than a send-triggering one invokes the transport
\* client: a Header, Query, Body, JSON, Build or Request call makes no round
\* trip.
C3_NoRoundTripBeforeSend ==
    [][lastOp' \notin SendTriggering =>
          (doCount' = doCount /\ DoCalls(trace') = 0)]_vars

\* C4: the transport is invoked at most once for one builder instance.
C4_AtMostOneRoundTrip == doCount <= 1

\* C5: a Send that reaches the transport calls every registered interceptor
\* once, in registration order, with the built request, and calls the
\* client's Do after all of them.
C5_InterceptorsInOrderBeforeDo ==
    (lastOp = "Send" /\ ~request.nil) =>
        /\ Len(trace) = Len(beforeEachInterceptors) + 1
        /\ \A i \in 1..Len(beforeEachInterceptors) :
              /\ trace[i].kind = "interceptor"
              /\ trace[i].id = beforeEachInterceptors[i]
              /\ trace[i].request = View(request, builder)
        /\ trace[Len(trace)].kind = "Do"
        /\ trace[Len(trace)].request = View(request, builder)

C5_Witness ==
    /\ lastOp = "Send"
    /\ ~request.nil
    /\ Len(beforeEachInterceptors) = 2
    /\ beforeEachInterceptors[1] # beforeEachInterceptors[2]
    /\ Len(trace) = 3

\* C6: a Send on a builder that holds an error, or whose request cannot be
\* constructed, returns that error and calls no interceptor and no client.
C6_ErrorStateNeverReachesNetwork ==
    (lastOp = "Send" /\ (builder.err # NoErr \/ builder.endpoint = BadEndpoint)) =>
        /\ trace = <<>>
        /\ response.nil
        /\ Is(retErr, IF builder.err # NoErr THEN builder.err ELSE ErrParseURL)

C6_Witness ==
    /\ lastOp = "Send"
    /\ builder.err # NoErr
    /\ beforeEachInterceptors # <<>>
    /\ Is(retErr, builder.err)

\* C7: when the transport call succeeded, Send returns an error that is
\* ErrUnexpectedResponseStatus exactly when the status is outside 200..299,
\* and no error otherwise.
C7_StatusPolicy ==
    (lastOp = "Send" /\ trace # <<>> /\ Answer.kind = "response") =>
        /\ Is(retErr, ErrUnexpectedResponseStatus) <=> Answer.status \notin 200..299
        /\ Answer.status \in 200..299 => retErr = NoErr

C7_Witness ==
    /\ lastOp = "Send"
    /\ trace # <<>>
    /\ Answer.status = 299
    /\ retErr = NoErr

\* C8: the Response returned with ErrUnexpectedResponseStatus carries the
\* transport's status code and all the bytes its body stream yielded.
C8_UnexpectedStatusKeepsResponse ==
    (lastOp = "Send" /\ Is(retErr, ErrUnexpectedResponseStatus)) =>
        /\ ~response.nil
        /\ response.StatusCode = Answer.status
        /\ response.Body = Answer.body
        /\ response.closed

C8_Witness ==
    /\ lastOp = "Send"
    /\ Is(retErr, ErrUnexpectedResponseStatus)
    /\ response.StatusCode = 103
    /\ response.Body = ResponseBody

\* C9: on a builder without error the value list of every key is the values
\* Header was given under that key, in call order, and a request just built
\* carries these lists.
C9_HeadersAccumulateInCallOrder ==
    builder.err = NoErr =>
        \A k \in HeaderKeys :
            /\ builder.headers[k] = headerCalls[k]
            /\ (lastOp \in Terminal /\ ~request.nil) =>
                  RequestHeader(request, builder)[k] = headerCalls[k]

C9_Witness ==
    /\ lastOp = "Request"
    /\ ~request.nil
    /\ headerCalls["key1"] = <<"v2", "v1">>
    /\ RequestHeader(request, builder)["key1"] = <<"v2", "v1">>

\* the values a raw query holds under key k, in their order
ValuesUnder(rawQuery, k) ==
    LET hits == SelectSeq(rawQuery, LAMBDA pair : pair[1] = k)
    IN [i \in 1..Len(hits) |-> hits[i][2]]

KeyRank(k) == CHOOSE i \in 1..Len(SortedQueryKeys) : SortedQueryKeys[i] = k

\* C10: the raw query of a request just built holds, under every key, the
\* query-escaped values Query was given under that key, in the order given,
\* and nothing else, with the keys in sorted order.
C10_QueryValuesEncodedInOrder ==
    (lastOp \in Terminal /\ ~request.nil) =>
        /\ \A k \in QueryKeys :
              ValuesUnder(request.rawQuery, k)
                 = [i \in 1..Len(queryCalls[k]) |-> QueryEscape(queryCalls[k][i])]
        /\ \A i \in 1..Len(request.rawQuery) : request.rawQuery[i][1] \in QueryKeys
        /\ \A i, j \in 1..Len(request.rawQuery) :
              i < j => KeyRank(request.rawQuery[i][1]) <= KeyRank(request.rawQuery[j][1])

C10_Witness ==
    /\ lastOp = "Request"
    /\ ~request.nil
    /\ queryCalls["q1"] = <<"x", "a b">>
    /\ queryCalls["q2"] = <<"a b">>
    /\ request.rawQuery = <<<<"q1", "x">>, <<"q1", "a+b">>, <<"q2", "a+b">>>>

\* C11: a request built from a context that carries a correlation id reads
\* that id, and nothing else, under the correlation header; a request built
\* from a context without one has no value under that header.
C11_CorrelationPropagated ==
    (lastOp \in Terminal /\ ~request.nil) =>
        LET h == RequestHeader(request, builder)
        IN IF builder.ctx # NoCorrelation
           THEN /\ HeaderGet(h, CanonicalCorrelationKey) = builder.ctx
                /\ \A i \in 1..Len(h[CanonicalCorrelationKey]) :
                      h[CanonicalCorrelationKey][i] = builder.ctx
           ELSE h[CanonicalCorrelationKey] = <<>>

C11_Witness ==
    /\ lastOp = "Request"
    /\ ~request.nil
    /\ request.aliased
    /\ builder.ctx = "id-1"
    /\ HeaderGet(RequestHeader(request, builder), CanonicalCorrelationKey) = "id-1"

\* C12: once a JSON call has failed to serialize its value, the builder keeps
\* the body it had: no later call, Body and JSON included, changes it.
C12_BodyKeptAfterMarshalFailure ==
    [][(Is(builder.err, ErrMarshal) /\ lastOp' = "Config") =>
          builder'.body = builder.body]_vars

\* the bodies a successful JSON call leaves on the builder
Marshalled == {Marshal(v).out : v \in {j \in JsonValues : Marshal(j).err = NoErr}}

\* C13: a request built from a builder whose body a successful JSON call set
\* carries content-type: application/json.
C13_JSONSetsContentType ==
    (lastOp \in Terminal /\ ~request.nil /\ ~builder.body.nil
        /\ builder.body.data \in Marshalled) =>
        RequestHeader(request, builder)[ContentType] = <<"application/json">>

\* C14: when a response has been decoded as JSON, the request the transport
\* was given for it carries accept: application/json.
C14_DecodeSetsAcceptBeforeRoundTrip ==
    (lastOp = "Decode" /\ ~response.nil) =>
        RequestHeader(request, builder)[Accept] = <<"application/json">>

\* C15: when the transport answered a Send, the Response returned holds every
\* byte the body stream yielded and the stream is closed, whatever the status
\* and whether or not reading failed; no Response a caller holds has an open
\* stream.
C15_StreamDrainedAndClosed ==
    /\ (lastOp = "Send" /\ trace # <<>> /\ Answer.kind = "response") =>
          /\ ~response.nil
          /\ response.Body = Answer.body
          /\ response.closed
    /\ ~response.nil => response.closed

C15_Witness ==
    /\ lastOp = "Send"
    /\ trace # <<>>
    /\ Answer.readErr
    /\ Answer.status = 300
    /\ response.closed

\* C16: a Send whose response body stream failed while it was read returns
\* an error.
C16_ReadFailureReported ==
    (lastOp = "Send" /\ trace # <<>> /\ Answer.kind = "response" /\ Answer.readErr) =>
        retErr # NoErr

\* C17: a Send on a builder whose body reader an earlier Send has read to
\* its end returns an error and hands nothing to the transport.
C17_ResendOfConsumedBodyFails ==
    [][(lastOp' = "Send" /\ ~builder.body.nil /\ builder.body.data # <<>>
          /\ Remaining(builder.body) = <<>>) =>
          (retErr' # NoErr /\ DoCalls(trace') = 0)]_vars

\* C18: a request that Request has returned stays as it was returned: no
\* later Header, Query, Body or Request call on the builder changes its
\* headers, its URL and query, or its body.
C18_BuiltRequestImmutable ==
    [][~request.nil => View(request', builder') = View(request, builder)]_vars

\* what the constructor tests assert of a builder: its method, endpoint,
\* context and client, an empty query mapping (a nil map is empty), a header
\* map that is there and empty, no body and no error
Bound(b, method, ctx, endpoint) ==
    /\ b.method = method
    /\ b.endpoint = endpoint
    /\ b.ctx = ctx
    /\ b.client = "http.DefaultClient"
    /\ MapLen(b.query.vals) = 0
    /\ MapLen(b.headers) = 0
    /\ b.body = NilReader
    /\ b.err = NoErr

\* C19: each of GET, POST, PUT and PATCH returns a builder bound to its own
\* method, to the endpoint and context given and to the default client, with
\* empty query and header mappings and no error; a builder just constructed
\* is one of these.
C19_ConstructorsBindTheirMethod ==
    /\ \A c \in Contexts, e \in Endpoints :
          /\ Bound(GET(c, e), "GET", c, e)
          /\ Bound(POST(c, e), "POST", c, e)
          /\ Bound(PUT(c, e), "PUT", c, e)
          /\ Bound(PATCH(c, e), "PATCH", c, e)
    /\ lastOp = "New" =>
          /\ builder.method \in Methods
          /\ Bound(builder, builder.method, builder.ctx, builder.endpoint)
          /\ builder = Construct(builder.method, builder.ctx, builder.endpoint)

C19_Witness ==
    /\ lastOp = "New"
    /\ builder = PUT("id-1", GoodEndpoint)
    /\ builder.method = "PUT"
    /\ builder.query.nil

\* the logger calls that emit a line, and the event kind of each
Emitting == {"Info", "Debug", "Error", "Trace", "TraceEnd"}

EventOf(op) ==
    CASE op = "Info" -> Events.Info
      [] op = "Debug" -> Events.Debug
      [] op = "Error" -> Events.Error
      [] op = "Trace" -> Events.TraceStart
      [] op = "TraceEnd" -> Events.TraceEnd

\* C20: a logger call that emits calls every handler registered by then, in
\* registration order, with the event kind of the call and its message, and
\* emits the line after the last of them; a call that does not emit, a
\* registration included, calls no handler for a line emitted before.
C20_HandlersBeforeEmission ==
    [][/\ lastOp' \in Emitting =>
             LET n == Len(log.beforeEach)
             IN /\ Len(journal') = n + 1
                /\ journal'[n + 1].kind = "emit"
                /\ \A i \in 1..n :
                      journal'[i] = [kind |-> "handler",
                                     id |-> log.beforeEach[i],
                                     event |-> EventOf(lastOp'),
                                     message |-> journal'[n + 1].message]
       /\ lastOp' \notin Emitting => journal' = journal]_vars

C20_Witness ==
    /\ lastOp = "TraceEnd"
    /\ log.beforeEach = <<"h2", "h1">>
    /\ Len(journal) = 3
    /\ journal[1].id = "h2"
    /\ journal[2].id = "h1"
    /\ journal[3].kind = "emit"

\* the line the closure of the Trace just called will emit
EndLine == Tracer(log, [message |-> journal[Len(journal)].message])

\* C21: Trace calls the handlers with trace_start and emits a start line, its
\* closure calls them with trace_end and emits an end line, and the start
\* line differs from the end line in its marker.
C21_TraceStartDistinctFromEnd ==
    lastOp = "Trace" =>
        /\ journal[Len(journal)].kind = "emit"
        /\ EndLine[Len(EndLine)].kind = "emit"
        /\ \A i \in 1..(Len(journal) - 1) :
              /\ journal[i].event = Events.TraceStart
              /\ EndLine[i].event = Events.TraceEnd
        /\ journal[Len(journal)].marker # EndLine[Len(EndLine)].marker

\* the goroutines whose BeforeEach has returned, and whose Send has
Registered ==
    {g \in Goroutines : goroutines[g].op = "BeforeEach" /\ goroutines[g].pc = "done"}

Sent == {g \in Goroutines : goroutines[g].op = "Send" /\ goroutines[g].pc = "done"}

\* the interceptors a Send called, in the order it called them
Invoked(g) ==
    LET calls == SelectSeq(goroutines[g].did, LAMBDA ev : ev.kind = "interceptor")
    IN [i \in 1..Len(calls) |-> calls[i].id]

IsPrefix(s, t) == Len(s) <= Len(t) /\ s = SubSeq(t, 1, Len(s))

\* C22: with BeforeEach and Send running concurrently, the registry holds one
\* entry for every BeforeEach that has returned, and once every goroutine is
\* done, the interceptors each Send called are a prefix of the registry.
C22_RegistrySafeUnderInterleaving ==
    (\A g \in DOMAIN goroutines : goroutines[g].pc \in {"start", "done"}) =>
        /\ Len(beforeEachInterceptors) = Cardinality(Registered)
        /\ \A g \in Registered :
              \E i \in 1..Len(beforeEachInterceptors) :
                  beforeEachInterceptors[i] = goroutines[g].interceptor
        /\ (\A g \in DOMAIN goroutines : goroutines[g].pc = "done") =>
              \A g \in Sent : IsPrefix(Invoked(g), beforeEachInterceptors)

\* C23: Build, Request and Send leave the header mapping of the builder as
\* it was, and a request built from a context with a correlation id holds
\* that id once under the correlation header.
C23_BuildLeavesHeadersUnchanged ==
    [][lastOp' \in Terminal =>
          /\ builder'.headers = builder.headers
          /\ (~request'.nil /\ builder.ctx # NoCorrelation) =>
                RequestHeader(request', builder')[CanonicalCorrelationKey]
                   = <<builder.ctx>>]_vars

\* C24: on a builder of any constructor, a Query call that supplies values
\* returns normally and the query string built from the builder holds the
\* values given under the key so far.
C24_QueryUsableOnEveryConstructor ==
    [][\A k \in QueryKeys :
          queryCalls'[k] # queryCalls[k] =>
             /\ ~panicked'
             /\ ValuesUnder(Encode(builder'.query), k)
                   = [i \in 1..Len(queryCalls'[k]) |->
                         QueryEscape(queryCalls'[k][i])]]_vars

====
